---------------------------- MODULE Spec2Model ----------------------------
(***************************************************************************)
(* Model of src/main.py: a FastAPI backend with two greeting endpoints, a  *)
(* database diagnostic (GET /test) and a contact form (POST /api/contact)  *)
(* that persists a message and relays it over SMTP on a best-effort basis. *)
(*                                                                         *)
(* Every handler is one action.  The external collaborators (the document  *)
(* store, the SMTP server, the database handle) answer nondeterministically*)
(* and the answer is an input of the action.  The variables in the second  *)
(* group describe what the most recent request did, so that properties of  *)
(* "a request" are invariants over them.                                   *)
(*                                                                         *)
(* Text that the program inspects (truthiness, int(), slicing, header      *)
(* validation, length) is a sequence of one-character strings; text that   *)
(* is only passed along is a TLA+ string.                                  *)
(***************************************************************************)
EXTENDS Naturals, Integers, Sequences, FiniteSets, TLC

VARIABLES
    env,            \* process environment: name -> Optional text
    database,       \* what `from database import db` yields in this process
    store,          \* the "contactmessage" collection: sequence of documents
    handler,        \* handler that served the most recent request
    calls,          \* collaborator calls of that request, in order
    smtp,           \* SMTP operations of that request, in order
    store_error,    \* Optional text: message of the exception create_document raised
    email_status,   \* what try_send_email did in that request
    response        \* the HTTP response of that request

vars == <<env, database, store, handler, calls, smtp, store_error, email_status, response>>

-----------------------------------------------------------------------------
(* Bounds of the model *)

MaxDocs == 2          \* documents the store may hold
MaxErrLen == 51       \* longest exception message an external call raises with
MaxCollections == 11  \* most collection names the database lists

(* Program constants *)

ErrTrunc == 50        \* str(e)[:50]
CollectionLimit == 10 \* collections[:10]

-----------------------------------------------------------------------------
(* Python values *)

None == [set |-> FALSE, val |-> <<>>]
Str(s) == [set |-> TRUE, val |-> s]

\* bool(x) for x : Optional[str]
Truthy(x) == x.set /\ x.val # <<>>

\* s[:n]
Take(s, n) == SubSeq(s, 1, IF Len(s) < n THEN Len(s) ELSE n)

\* os.getenv(name, default)
getenv(name, default) == IF env[name].set THEN env[name] ELSE default

Digits == {"0", "1", "2", "3", "4", "5", "6", "7", "8", "9"}

DigitVal(c) == CASE c = "0" -> 0 [] c = "1" -> 1 [] c = "2" -> 2 [] c = "3" -> 3
                 [] c = "4" -> 4 [] c = "5" -> 5 [] c = "6" -> 6 [] c = "7" -> 7
                 [] c = "8" -> 8 [] c = "9" -> 9

RECURSIVE Strip(_)
\* str.strip() of blanks
Strip(s) ==
    IF s = <<>> THEN s
    ELSE IF Head(s) = " " THEN Strip(Tail(s))
    ELSE IF s[Len(s)] = " " THEN Strip(SubSeq(s, 1, Len(s) - 1))
    ELSE s

RECURSIVE DecimalValue(_)
DecimalValue(s) ==
    IF s = <<>> THEN 0
    ELSE 10 * DecimalValue(SubSeq(s, 1, Len(s) - 1)) + DigitVal(s[Len(s)])

\* int(x) for x : str.  Blanks around the literal are ignored, one sign is
\* allowed, and at least one digit must follow; anything else is a ValueError.
int(x) ==
    LET t == Strip(x.val)
        signed == t # <<>> /\ Head(t) \in {"+", "-"}
        d == IF signed THEN Tail(t) ELSE t
        ok == d # <<>> /\ \A i \in 1..Len(d) : d[i] \in Digits
    IN  IF ok
        THEN [raised |-> FALSE,
              value |-> IF signed /\ Head(t) = "-" THEN 0 - DecimalValue(d) ELSE DecimalValue(d)]
        ELSE [raised |-> TRUE, value |-> 0]

-----------------------------------------------------------------------------
(* Text literals of the program *)

SubjectPrefix == \* "New portfolio contact: "
    <<"N", "e", "w", " ", "p", "o", "r", "t", "f", "o", "l", "i", "o", " ", "c", "o", "n", "t", "a", "c", "t", ":", " ">>
NoSubject == \* "No subject"
    <<"N", "o", " ", "s", "u", "b", "j", "e", "c", "t">>
DefaultPort == \* "587"
    <<"5", "8", "7">>
DefaultTo == \* "studynotion.dev@gmail.com"
    <<"s", "t", "u", "d", "y", "n", "o", "t", "i", "o", "n", ".", "d", "e", "v", "@", "g", "m", "a", "i", "l", ".", "c", "o", "m">>
DatabaseErrorPrefix == \* "Database error: "
    <<"D", "a", "t", "a", "b", "a", "s", "e", " ", "e", "r", "r", "o", "r", ":", " ">>
NotConfigured == "SMTP not configured; skipped sending"

-----------------------------------------------------------------------------
(* try_send_email *)

\* Assigning msg[name] = value raises ValueError when the value spans lines.
HeaderRejected(v) == \E i \in 1..Len(v) : v[i] \in {"\n", "\r"}

\* The EmailMessage built from the payload and the environment.
BuildMessage(payload, smtp_from, smtp_to) ==
    [Subject |-> SubjectPrefix \o (IF Truthy(payload.subject) THEN payload.subject.val ELSE NoSubject),
     From |-> smtp_from.val,
     To |-> smtp_to.val,
     Content |-> <<payload.name, payload.email, payload.message>>]

Op(name, ok) == [op |-> name, ok |-> ok]

\* Points at which the SMTP server or the network can fail a session.
SmtpFailures == {"none", "connect", "starttls", "login", "send_message", "quit"}

\* with smtplib.SMTP(host, port, timeout=15) as server: starttls; [login]; send_message
\* `fail` is the operation the transport fails, if the session gets to it.
\* Leaving the with block sends QUIT and closes the socket, also when the
\* block is left by an exception; a failed connect never enters the block.
\* Faulty variant of SMTPSession: the connection is used without the with
\* block, so a failing step leaves it open.
SMTPSession_NoContextManager(login, fail) ==
    LET steps == <<"starttls">> \o (IF login THEN <<"login">> ELSE <<>>) \o <<"send_message">>
        failing == {i \in 1..Len(steps) : steps[i] = fail}
        last == IF failing = {} THEN Len(steps) ELSE CHOOSE i \in failing : TRUE
        body == [i \in 1..last |-> Op(steps[i], i \notin failing)]
        quit_ok == fail # "quit"
    IN  IF fail = "connect"
        THEN [raised |-> TRUE, ops |-> <<Op("connect", FALSE)>>]
        ELSE IF failing # {}
        THEN [raised |-> TRUE, ops |-> <<Op("connect", TRUE)>> \o body]
        ELSE [raised |-> ~quit_ok,
              ops |-> <<Op("connect", TRUE)>> \o body \o <<Op("quit", quit_ok), Op("close", TRUE)>>]

SMTPSession(login, fail) ==
    LET steps == <<"starttls">> \o (IF login THEN <<"login">> ELSE <<>>) \o <<"send_message">>
        failing == {i \in 1..Len(steps) : steps[i] = fail}
        last == IF failing = {} THEN Len(steps) ELSE CHOOSE i \in failing : TRUE
        body == [i \in 1..last |-> Op(steps[i], i \notin failing)]
        quit_ok == failing # {} \/ fail # "quit"
    IN  IF fail = "connect"
        THEN [raised |-> TRUE, ops |-> <<Op("connect", FALSE)>>]
        ELSE [raised |-> failing # {} \/ ~quit_ok,
              ops |-> <<Op("connect", TRUE)>> \o body \o <<Op("quit", quit_ok), Op("close", TRUE)>>]

\* How a call of try_send_email ends, and the SMTP operations it performed.
Returned(result, ops) == [state |-> "returned", result |-> result, ops |-> ops]
Raised(exc, ops) == [state |-> "raised", result |-> [exception |-> exc], ops |-> ops]

try_send_email(payload, fail) ==
    LET smtp_host == getenv("SMTP_HOST", None)
        smtp_port == int(getenv("SMTP_PORT", Str(DefaultPort)))
        smtp_user == getenv("SMTP_USER", None)
        smtp_pass == getenv("SMTP_PASS", None)
        smtp_from == getenv("SMTP_FROM", Str(payload.email))
        smtp_to == getenv("SMTP_TO", Str(DefaultTo))
        msg == BuildMessage(payload, smtp_from, smtp_to)
        session == SMTPSession(Truthy(smtp_user) /\ Truthy(smtp_pass), fail)
    IN  IF smtp_port.raised THEN Raised("ValueError", <<>>)
        ELSE IF ~Truthy(smtp_host) THEN Returned([sent |-> FALSE, reason |-> NotConfigured], <<>>)
        ELSE IF HeaderRejected(msg.Subject) \/ HeaderRejected(msg.From) \/ HeaderRejected(msg.To)
        THEN Returned([sent |-> FALSE, reason |-> "ValueError"], <<>>)
        ELSE IF session.raised
        THEN Returned([sent |-> FALSE, reason |-> fail], session.ops)
        ELSE Returned([sent |-> TRUE], session.ops)

-----------------------------------------------------------------------------
(* The document store *)

\* Messages an external call may raise with: "xx...x" of the given lengths.
ErrLens == {0, ErrTrunc, MaxErrLen}
ErrMsg(n) == [i \in 1..n |-> "x"]
ErrMsgs == {ErrMsg(n) : n \in ErrLens}

\* create_document(collection, payload) -> id.  `failure` is None when the
\* store accepts the write and the exception's message when it refuses it.
\* A refused write leaves the collection as it was.
create_document(docs, payload, failure) ==
    IF failure.set
    THEN [raised |-> failure, docs |-> docs, id |-> ""]
    ELSE LET id == "doc" \o ToString(Len(docs) + 1)
         IN  [raised |-> None, docs |-> Append(docs, [id |-> id, data |-> payload]), id |-> id]

-----------------------------------------------------------------------------
(* Handlers *)

NotCalled == [state |-> "not_called"]

\* raise HTTPException(status_code, detail)
HTTPException(status_code, detail) ==
    [kind |-> "http_exception", status |-> status_code, body |-> [detail |-> detail]]

\* An exception that escapes a handler: the framework answers 500.
Unhandled == [kind |-> "unhandled", status |-> 500, body |-> [text |-> "Internal Server Error"]]

OK(body) == [kind |-> "ok", status |-> 200, body |-> body]

\* email_status.get("sent", False)
GetSent(d) == IF "sent" \in DOMAIN d THEN d.sent ELSE FALSE

read_root == OK([message |-> "Hello from FastAPI Backend!"])

hello == OK([message |-> "Hello from the backend API!"])

\* Variant of PersistFailed that cuts the exception message as test_database does.
PersistFailed_Truncated(created) ==
    [store |-> created.docs,
     calls |-> <<"create_document">>,
     smtp |-> <<>>,
     store_error |-> created.raised,
     email_status |-> NotCalled,
     response |-> HTTPException(500, DatabaseErrorPrefix \o Take(created.raised.val, ErrTrunc))]

\* except Exception as e: raise HTTPException(status_code=500, detail=f"Database error: {e}")
PersistFailed(created) ==
    [store |-> created.docs,
     calls |-> <<"create_document">>,
     smtp |-> <<>>,
     store_error |-> created.raised,
     email_status |-> NotCalled,
     response |-> HTTPException(500, DatabaseErrorPrefix \o created.raised.val)]

\* Faulty variant of Notified: when no email went out, the sender's documents
\* are deleted again.
Notified_Rollback(created, email) ==
    LET sent == email.state = "returned" /\ GetSent(email.result)
        mine == created.docs[Len(created.docs)].data.email
    IN  [store |-> IF sent THEN created.docs
                   ELSE SelectSeq(created.docs, LAMBDA d : d.data.email # mine),
         calls |-> <<"create_document", "try_send_email">>,
         smtp |-> email.ops,
         store_error |-> None,
         email_status |-> [state |-> email.state, result |-> email.result],
         response |-> IF email.state = "raised"
                      THEN Unhandled
                      ELSE OK([id |-> created.id,
                               emailed |-> GetSent(email.result),
                               email_info |-> email.result])]

\* email_status = try_send_email(payload); return ContactResponse(...)
\* An exception of try_send_email is not caught here and escapes the handler.
Notified(created, email) ==
    [store |-> created.docs,
     calls |-> <<"create_document", "try_send_email">>,
     smtp |-> email.ops,
     store_error |-> None,
     email_status |-> [state |-> email.state, result |-> email.result],
     response |-> IF email.state = "raised"
                  THEN Unhandled
                  ELSE OK([id |-> created.id,
                           emailed |-> GetSent(email.result),
                           email_info |-> email.result])]

\* Faulty variant of submit_contact: the notifier runs although the write failed.
submit_contact_NotifyAnyway(docs, payload, failure, fail) ==
    LET created == create_document(docs, payload, failure)
        email == try_send_email(payload, fail)
    IN  IF created.raised.set
        THEN [PersistFailed(created) EXCEPT
                 !.calls = <<"create_document", "try_send_email">>,
                 !.smtp = email.ops,
                 !.email_status = [state |-> email.state, result |-> email.result]]
        ELSE Notified(created, email)

\* Faulty variant of submit_contact: a failed write is tried a second time.
submit_contact_Retry(docs, payload, failure, fail) ==
    LET created == create_document(docs, payload, failure)
        again == create_document(created.docs, payload, None)
        email == try_send_email(payload, fail)
    IN  IF created.raised.set
        THEN [Notified(again, email) EXCEPT
                 !.calls = <<"create_document", "create_document", "try_send_email">>]
        ELSE Notified(created, email)

submit_contact(docs, payload, failure, fail) ==
    LET created == create_document(docs, payload, failure)
    IN  IF created.raised.set
        THEN PersistFailed(created)
        ELSE Notified(created, try_send_email(payload, fail))

\* What db.list_collection_names() answers: a list of names or an exception.
Listing(n) == [ok |-> TRUE, names |-> [i \in 1..n |-> i], msg |-> <<>>]
ListingError(m) == [ok |-> FALSE, names |-> <<>>, msg |-> m]
CollectionCounts == {0} \cup (CollectionLimit..MaxCollections)
DbReplies == {Listing(n) : n \in CollectionCounts} \cup {ListingError(m) : m \in ErrMsgs}

DbText(text, err) == [text |-> text, error |-> err]

\* Faulty variant of test_database: the listing is reported without the slice.
test_database_NoSlice(reply, exc) ==
    LET initial == [backend |-> "Running",
                    database |-> DbText("Not Available", <<>>),
                    database_url |-> "None",
                    database_name |-> "None",
                    connection_status |-> "Not Connected",
                    collections |-> <<>>]
        probed ==
            CASE database = "ImportError" ->
                   [initial EXCEPT !.database = DbText("Database module not found (run enable-database first)", <<>>)]
              [] database = "Exception" ->
                   [initial EXCEPT !.database = DbText("Error: ", Take(exc, ErrTrunc))]
              [] database = "None" ->
                   [initial EXCEPT !.database = DbText("Available but not initialized", <<>>)]
              [] database = "Handle" ->
                   LET connected == [initial EXCEPT !.database = DbText("Available", <<>>),
                                                    !.database_url = "Configured",
                                                    !.database_name = "Connected",
                                                    !.connection_status = "Connected"]
                   IN  IF reply.ok
                       THEN [connected EXCEPT !.collections = reply.names,
                                              !.database = DbText("Connected & Working", <<>>)]
                       ELSE [connected EXCEPT !.database = DbText("Connected but Error: ", Take(reply.msg, ErrTrunc))]
    IN  [store |-> store,
         response |-> OK([probed EXCEPT
                !.database_url = IF Truthy(getenv("DATABASE_URL", None)) THEN "Set" ELSE "Not Set",
                !.database_name = IF Truthy(getenv("DATABASE_NAME", None)) THEN "Set" ELSE "Not Set"])]

\* `reply` is the answer of db.list_collection_names(), `exc` the message of
\* the exception the import raises when it raises one that is no ImportError.
test_database(reply, exc) ==
    LET initial == [backend |-> "Running",
                    database |-> DbText("Not Available", <<>>),
                    database_url |-> "None",
                    database_name |-> "None",
                    connection_status |-> "Not Connected",
                    collections |-> <<>>]
        probed ==
            CASE database = "ImportError" ->
                   [initial EXCEPT !.database = DbText("Database module not found (run enable-database first)", <<>>)]
              [] database = "Exception" ->
                   [initial EXCEPT !.database = DbText("Error: ", Take(exc, ErrTrunc))]
              [] database = "None" ->
                   [initial EXCEPT !.database = DbText("Available but not initialized", <<>>)]
              [] database = "Handle" ->
                   LET connected == [initial EXCEPT !.database = DbText("Available", <<>>),
                                                    !.database_url = "Configured",
                                                    !.database_name = "Connected",
                                                    !.connection_status = "Connected"]
                   IN  IF reply.ok
                       THEN [connected EXCEPT !.collections = Take(reply.names, CollectionLimit),
                                              !.database = DbText("Connected & Working", <<>>)]
                       ELSE [connected EXCEPT !.database = DbText("Connected but Error: ", Take(reply.msg, ErrTrunc))]
    IN  [store |-> store,
         response |-> OK([probed EXCEPT
                !.database_url = IF Truthy(getenv("DATABASE_URL", None)) THEN "Set" ELSE "Not Set",
                !.database_name = IF Truthy(getenv("DATABASE_NAME", None)) THEN "Set" ELSE "Not Set"])]

-----------------------------------------------------------------------------
(* State machine *)

EnvChoices ==
    [SMTP_HOST : {None, Str(<<>>), Str(<<"h">>)},
     SMTP_PORT : {None, Str(<<"2", "5">>), Str(<<"a">>)},
     SMTP_USER : {None, Str(<<>>), Str(<<"u">>)},
     SMTP_PASS : {None, Str(<<>>), Str(<<"p">>)},
     SMTP_FROM : {None},
     SMTP_TO : {None},
     DATABASE_URL : {Str(<<"m">>)},
     DATABASE_NAME : {None}]

Databases == {"ImportError", "Exception", "None", "Handle"}

\* Schema-valid contact messages: subject is optional.
Payloads ==
    [name : {<<"A">>}, email : {<<"a", "@", "x">>},
     subject : {None, Str(<<"H", "\n", "i">>)},
     message : {<<"m">>}]

\* A request that calls neither the store's writer nor the notifier.
Quiet == /\ calls' = <<>>
         /\ smtp' = <<>>
         /\ store_error' = None
         /\ email_status' = NotCalled

Init ==
    /\ env \in EnvChoices
    /\ database \in Databases
    /\ store = <<>>
    /\ handler = "none"
    /\ calls = <<>>
    /\ smtp = <<>>
    /\ store_error = None
    /\ email_status = NotCalled
    /\ response = [kind |-> "none"]

ReadRoot ==
    /\ handler' = "read_root"
    /\ response' = read_root
    /\ Quiet
    /\ UNCHANGED <<env, database, store>>

Hello ==
    /\ handler' = "hello"
    /\ response' = hello
    /\ Quiet
    /\ UNCHANGED <<env, database, store>>

TestDatabase ==
    \E reply \in IF database = "Handle" THEN DbReplies ELSE {Listing(0)},
       exc \in IF database = "Exception" THEN ErrMsgs ELSE {<<>>} :
        LET r == test_database(reply, exc)
        IN  /\ handler' = "test_database"
            /\ response' = r.response
            /\ store' = r.store
            /\ Quiet
            /\ UNCHANGED <<env, database>>

SubmitContact ==
    \E payload \in Payloads, failure \in {None} \cup {Str(m) : m \in ErrMsgs}, fail \in SmtpFailures :
        LET r == submit_contact(store, payload, failure, fail)
        IN  /\ Len(r.store) <= MaxDocs
            /\ handler' = "submit_contact"
            /\ store' = r.store
            /\ calls' = r.calls
            /\ smtp' = r.smtp
            /\ store_error' = r.store_error
            /\ email_status' = r.email_status
            /\ response' = r.response
            /\ UNCHANGED <<env, database>>

Next == ReadRoot \/ Hello \/ TestDatabase \/ SubmitContact

Spec == Init /\ [][Next]_vars

-----------------------------------------------------------------------------
(* Properties *)

IsContact == handler = "submit_contact"
Persisted == IsContact /\ ~store_error.set
Count(seq, P(_)) == Cardinality({i \in 1..Len(seq) : P(seq[i])})
OpsNamed(ops, name) == {i \in 1..Len(ops) : ops[i].op = name}

\* C1: try_send_email never raises: whatever the environment and whatever the
\* transport does, a call of it ends by returning a status record.
C1_NotifierNeverRaises ==
    email_status.state # "raised"

\* C2: for a valid payload, POST /api/contact ends in an HTTP-level error if
\* and only if create_document failed.
C2_ErrorIffPersistFails ==
    IsContact => ((response.kind # "ok") <=> store_error.set)

\* C3: when create_document raises, the request ends with a 500, the store is
\* left as it was, and try_send_email is not called: no SMTP operation happens.
\* In every request a call of try_send_email comes after a call of
\* create_document that succeeded.
C3_NoNotifyWithoutPersist ==
    [][ /\ (handler' = "submit_contact" /\ store_error'.set) =>
              /\ response'.kind = "http_exception"
              /\ response'.status = 500
              /\ store' = store
              /\ calls' = <<"create_document">>
              /\ email_status'.state = "not_called"
              /\ smtp' = <<>>
        /\ \A i \in 1..Len(calls') :
              calls'[i] = "try_send_email" =>
                  /\ ~store_error'.set
                  /\ \E j \in 1..(i - 1) : calls'[j] = "create_document"
        /\ (smtp' # <<>>) => (\E i \in 1..Len(calls') : calls'[i] = "try_send_email")
      ]_vars

C3_Witness ==
    /\ IsContact /\ store_error.set
    /\ response.status = 500
    /\ Len(store) > 0

\* C4: with SMTP_HOST unset or empty, a contact request whose persist step
\* succeeded answers emailed = false with the "not configured" reason, and
\* opens no SMTP connection, whatever the other SMTP_* variables hold.
C4_UnsetHostNotConfigured ==
    (Persisted /\ ~Truthy(env.SMTP_HOST)) =>
        /\ response.kind = "ok"
        /\ response.body.emailed = FALSE
        /\ response.body.email_info.reason = NotConfigured
        /\ smtp = <<>>

\* C5: when create_document succeeds, the response carries the non-empty id
\* the store returned, emailed equal to the notifier's sent field, and
\* email_info equal to the notifier's whole result.
C5_ResponseReflectsStoreAndNotifier ==
    Persisted =>
        /\ response.kind = "ok"
        /\ response.body.id = store[Len(store)].id
        /\ response.body.id # ""
        /\ email_status.state = "returned"
        /\ response.body.emailed = email_status.result.sent
        /\ response.body.email_info = email_status.result

\* C6: a request calls create_document at most once and sends at most one
\* email; no request adds more than one document, and a contact request that
\* completes successfully has added exactly one.
C6_AtMostOneWriteAndOneSend ==
    [][ /\ Count(calls', LAMBDA c : c = "create_document") <= 1
        /\ Count(calls', LAMBDA c : c = "try_send_email") <= 1
        /\ Cardinality(OpsNamed(smtp', "connect")) <= 1
        /\ Cardinality(OpsNamed(smtp', "send_message")) <= 1
        /\ Len(store') <= Len(store) + 1
        /\ (handler' = "submit_contact" /\ response'.kind = "ok") =>
              /\ Count(calls', LAMBDA c : c = "create_document") = 1
              /\ Len(store') = Len(store) + 1
              /\ SubSeq(store', 1, Len(store)) = store
      ]_vars

C6_Witness ==
    /\ IsContact /\ response.kind = "ok"
    /\ response.body.emailed
    /\ Len(store) = 2

\* C7: GET /test never raises: with the import failing, the handle None, the
\* listing failing or succeeding, it answers 200 with a diagnostic object in
\* which an error appears as text of at most ErrTrunc characters in the
\* database field and at most CollectionLimit collection names are listed.
C7_TestDatabaseNeverRaises ==
    handler = "test_database" =>
        /\ response.kind = "ok"
        /\ response.status = 200
        /\ Len(response.body.collections) <= CollectionLimit
        /\ Len(response.body.database.error) <= ErrTrunc
        /\ (database = "ImportError") =>
              response.body.database.text = "Database module not found (run enable-database first)"
        /\ (database = "Exception") => response.body.database.text = "Error: "
        /\ (database = "None") => response.body.database.text = "Available but not initialized"
        /\ (database = "Handle") =>
              response.body.database.text \in {"Connected & Working", "Connected but Error: "}
        /\ (response.body.collections # <<>>) => response.body.database.text = "Connected & Working"
        /\ (response.body.database.error # <<>>) =>
              response.body.database.text \in {"Error: ", "Connected but Error: "}

C7_Witness ==
    /\ handler = "test_database"
    /\ database = "Handle"
    /\ Len(response.body.collections) = CollectionLimit

\* C8 as stated: when the store write fails, the detail of the server error is
\* truncated, so its length has a bound that does not depend on the length of
\* the store exception's message (here the bound of the diagnostic endpoint:
\* the prefix plus ErrTrunc characters).
C8_DetailTruncated ==
    (IsContact /\ store_error.set) =>
        Len(response.body.detail) <= Len(DatabaseErrorPrefix) + ErrTrunc

\* C8 amended: when the store write fails, the request ends with a 500 whose
\* detail is "Database error: " followed by the whole message of the store
\* exception, so its length is 16 plus the length of that message.
C8_DetailIsWholeMessage ==
    (IsContact /\ store_error.set) =>
        /\ response.kind = "http_exception"
        /\ response.status = 500
        /\ response.body.detail = DatabaseErrorPrefix \o store_error.val
        /\ Len(response.body.detail) = 16 + Len(store_error.val)

C8_Witness ==
    /\ IsContact /\ store_error.set
    /\ Len(store_error.val) > ErrTrunc

\* C9: a persisted document is never changed, removed or rolled back by any
\* request, and the GET endpoints leave the store as it is.
C9_DocumentsImmutable ==
    [][ /\ Len(store') >= Len(store)
        /\ \A i \in 1..Len(store) : store'[i] = store[i]
        /\ (handler' \in {"read_root", "hello", "test_database"}) => store' = store
      ]_vars

C9_Witness ==
    /\ IsContact /\ response.kind = "ok"
    /\ ~response.body.emailed
    /\ Len(store) = 2

Rank(name) ==
    CASE name = "connect" -> 1 [] name = "starttls" -> 2 [] name = "login" -> 3
      [] name = "send_message" -> 4 [] name = "quit" -> 5 [] name = "close" -> 6

Credentials == Truthy(env.SMTP_USER) /\ Truthy(env.SMTP_PASS)

\* C10: with SMTP_HOST configured the SMTP operations of a request come in the
\* order connect, STARTTLS, login, send, close; login is attempted only with
\* both SMTP_USER and SMTP_PASS non-empty, and a session that reaches the send
\* has logged in exactly when both are non-empty; nothing is sent before
\* STARTTLS succeeded; sent = true is returned only if the send completed; a
\* connection that was opened is closed, also when a step failed.
C10_SmtpSessionOrder ==
    /\ (smtp # <<>>) => (Truthy(env.SMTP_HOST) /\ smtp[1].op = "connect")
    /\ \A i, j \in 1..Len(smtp) : i < j => Rank(smtp[i].op) < Rank(smtp[j].op)
    /\ \A i \in 1..Len(smtp) : (i < Len(smtp)) =>
           (smtp[i].ok \/ smtp[i + 1].op \in {"quit", "close"})
    /\ (OpsNamed(smtp, "login") # {}) => Credentials
    /\ \A i \in OpsNamed(smtp, "send_message") :
           /\ \E j \in 1..(i - 1) : smtp[j].op = "starttls" /\ smtp[j].ok
           /\ Credentials <=> (\E j \in 1..(i - 1) : smtp[j].op = "login" /\ smtp[j].ok)
    /\ (email_status.state = "returned" /\ GetSent(email_status.result)) =>
           \E i \in OpsNamed(smtp, "send_message") : smtp[i].ok
    /\ (smtp # <<>> /\ smtp[1].ok) => smtp[Len(smtp)] = Op("close", TRUE)

C10_Witness ==
    /\ email_status.state = "returned"
    /\ ~GetSent(email_status.result)
    /\ \E i \in OpsNamed(smtp, "login") : ~smtp[i].ok
    /\ smtp[Len(smtp)].op = "close"

=============================================================================
